---- MODULE Spec2Model ----
(***************************************************************************)
(* Model of qwind/wind.py: the Qwind constructor (boundaries and launch    *)
(* grid), Qwind.start_lines (initial-velocity selection, sequential and    *)
(* pooled evolution of the streamlines) and Qwind.compute_wind_mass_loss.  *)
(*                                                                         *)
(* Numbers.  Radii are exact rationals.  Every launch radius of a model is *)
(* kept as its numerator over the common denominator grid_den = 2*(nr-1):  *)
(*    r_in + (i - 0.5) * dr,  dr = (r_out - r_in) / (nr - 1)               *)
(*  = (2*(nr-1)*r_in + (2*i-1)*(r_out - r_in)) / (2*(nr-1)).               *)
(* Division is the division of Python numbers: dividing by zero raises     *)
(* ZeroDivisionError.  The mass-loss rate is kept in units of              *)
(* 2*pi*m_p*c*Rg^2 / grid_den^2 (a positive factor), densities in units of *)
(* the default rho_0 of Qwind.line.                                        *)
(***************************************************************************)
EXTENDS Integers, Sequences, FiniteSets, TLC

\* ------------------------------------------------------------------ bounds
MaxR == 3
MaxCorona == 2
MaxNr == 3
MaxCpus == 2

\* ------------------------------------------------------- program constants
DefaultRIn == 200
DefaultROut == 1600
DefaultNiter == 5000

\* The mode lists tried (wind.py tests 'old_boundaries', 'old', 'custom_vel').
ModeSets ==
    { {}, {"old"}, {"old_boundaries"}, {"custom_vel"},
      {"old_boundaries", "custom_vel"} }

VARIABLES
    pc,             \* "new", "ctor_raised", "constructed", "seq", "pool", "returned", "raised"
    error,          \* the exception that left the constructor or start_lines, or "none"
    modes,          \* self.modes
    n_cpus,         \* self.n_cpus
    arg_r_in,       \* constructor argument r_in
    arg_r_out,      \* constructor argument r_out
    arg_nr,         \* constructor argument nr
    corona_radius,  \* self.radiation.sed_class.corona_radius
    gravity_radius, \* self.radiation.sed_class.gravity_radius
    r_in,           \* self.r_in
    r_out,          \* self.r_out
    grid_den,       \* common denominator of the radii of lines_r_range
    lines_r_range,  \* self.lines_r_range (numerators)
    lines,          \* self.lines
    mdot_w,         \* self.mdot_w: <<>> while the attribute is not set, else <<value>>
    niter,          \* the niter argument of start_lines
    physics,        \* streamline -> <<>> or <<what the integrator did to it>>
    launched,       \* the streamlines as constructed, in submission order
    seq_i,          \* position of the sequential loop of start_lines
    pending,        \* pool: tasks submitted and not yet taken by a worker
    running,        \* pool: worker -> the task it is running (0: idle)
    results,        \* pool: task -> <<>> or <<the streamline evolve returned>>
    reordered,      \* pool: some task completed before one submitted earlier
    failed,         \* tasks whose iterate raised
    attempts,       \* streamline -> number of iterate calls made on it
    agg_calls,      \* calls of compute_wind_mass_loss made by start_lines
    mass_ret        \* return value of a direct compute_wind_mass_loss call: <<>> or <<v>>

cfgVars == <<modes, n_cpus, arg_r_in, arg_r_out, arg_nr, corona_radius, gravity_radius>>
gridVars == <<r_in, r_out, grid_den, lines_r_range>>
poolVars == <<pending, running, results, reordered>>
vars == <<pc, error, cfgVars, gridVars, lines, mdot_w, niter, physics, launched,
          seq_i, poolVars, failed, attempts, agg_calls, mass_ret>>

\* ------------------------------------------------------------ constructor
OldBoundaries(m) == "old_boundaries" \in m \/ "old" \in m

CustomVel(m) == "custom_vel" \in m \/ "old" \in m

\* self.r_in, self.r_out after lines 101-105
EffRIn == IF OldBoundaries(modes) THEN arg_r_in ELSE 2 * corona_radius

EffROut == IF OldBoundaries(modes) THEN arg_r_out ELSE gravity_radius

GridDen(n) == 2 * (n - 1)

\* The grid with the radii on the cell edges, r_in + (i - 1) * dr.
GridNumOnEdges(i, rin, rout, n) == GridDen(n) * rin + (2 * i - 2) * (rout - rin)

\* numerator of r_in + (i - 0.5) * dr over GridDen(n)
GridNum(i, rin, rout, n) == GridDen(n) * rin + (2 * i - 1) * (rout - rin)

\* [ ... for i in range(1, nr+1)]
LinesRRange(rin, rout, n) == [i \in 1..n |-> GridNum(i, rin, rout, n)]

\* The constructor arguments and the radii of the Radiation collaborator.  The
\* r_in and r_out arguments are read only under 'old_boundaries' or 'old' and
\* keep their defaults otherwise; gravity_radius is read only without them,
\* and the collaborator places it beyond twice the corona radius.
Init ==
    /\ pc = "new"
    /\ error = "none"
    /\ modes \in ModeSets
    /\ n_cpus \in 1..MaxCpus
    /\ arg_nr \in 0..MaxNr
    /\ corona_radius \in 1..MaxCorona
    /\ IF OldBoundaries(modes)
       THEN /\ arg_r_in \in 1..MaxR
            /\ arg_r_out \in 1..MaxR
            /\ gravity_radius = 2 * corona_radius + 1
       ELSE /\ arg_r_in = DefaultRIn
            /\ arg_r_out = DefaultROut
            /\ gravity_radius \in (2 * corona_radius + 1)..(2 * corona_radius + MaxR)
    /\ r_in = 0
    /\ r_out = 0
    /\ grid_den = 0
    /\ lines_r_range = <<>>
    /\ lines = <<>>
    /\ mdot_w = <<>>
    /\ niter = 0
    /\ physics = <<>>
    /\ launched = <<>>
    /\ seq_i = 0
    /\ pending = {}
    /\ running = [w \in 1..n_cpus |-> 0]
    /\ results = <<>>
    /\ reordered = FALSE
    /\ failed = {}
    /\ attempts = <<>>
    /\ agg_calls = 0
    /\ mass_ret = <<>>

\* Qwind.__init__: line 120 divides by nr - 1, line 122 reads lines_r_range[0].
Construct ==
    /\ pc = "new"
    /\ IF arg_nr = 1
       THEN /\ pc' = "ctor_raised"
            /\ error' = "ZeroDivisionError"
            /\ UNCHANGED gridVars
       ELSE IF Len(LinesRRange(EffRIn, EffROut, arg_nr)) = 0
       THEN /\ pc' = "ctor_raised"
            /\ error' = "IndexError"
            /\ UNCHANGED gridVars
       ELSE /\ pc' = "constructed"
            /\ error' = "none"
            /\ r_in' = EffRIn
            /\ r_out' = EffROut
            /\ grid_den' = GridDen(arg_nr)
            /\ lines_r_range' = LinesRRange(EffRIn, EffROut, arg_nr)
    /\ UNCHANGED <<cfgVars, lines, mdot_w, niter, physics, launched, seq_i,
                   poolVars, failed, attempts, agg_calls, mass_ret>>

\* ------------------------------------------------- streamline collaborator
\* Qwind.line: a streamline at radius r with initial vertical velocity v; the
\* other arguments keep their defaults (rho_0 is the unit of density).
NewLine(id, r, v) ==
    [id |-> id, r_0 |-> r, v_z_0 |-> v, rho_0 |-> 1,
     escaped |-> FALSE, v_T_0 |-> 0, iters |-> <<>>]

\* What iterate can do to one streamline: raise, or finish with an escape
\* outcome and a velocity scale v_T_0.
Outcomes ==
    { [fails |-> TRUE, escaped |-> FALSE, v_T_0 |-> 0],
      [fails |-> FALSE, escaped |-> FALSE, v_T_0 |-> 1],
      [fails |-> FALSE, escaped |-> TRUE, v_T_0 |-> 1] }

\* The integrator is deterministic: the outcome o of iterate on a streamline
\* is the one already seen for that streamline, if any.
Deterministic(line, o) == physics[line.id] = <<>> \/ physics[line.id] = <<o>>

\* streamline.iterate(niter) with outcome o, run by `by` ("coordinator" or
\* "worker").
Iterate(line, n, by, o) ==
    [line EXCEPT !.escaped = o.escaped,
                 !.v_T_0 = o.v_T_0,
                 !.iters = Append(@, [by |-> by, niter |-> n])]

\* evolve(line, niter)
Evolve(line, n, by, o) == Iterate(line, n, by, o)

\* ------------------------------------------ start_lines: velocity selection
CallerV == [kind |-> "caller", at |-> 0]

Thermal2e6 == [kind |-> "thermal_2e6", at |-> 0]

\* thermal_velocity(disk_temperature4(r)**(1./4.)) * c
ThermalDisk(r) == [kind |-> "thermal_disk", at |-> r]

Skip == [kind |-> "skip", at |-> 0]

\* The selection with the fixed temperature kept at r = 2 * corona_radius.
SelectVelocityInclusive(r, v) ==
    IF CustomVel(modes) THEN v
    ELSE IF r > corona_radius * grid_den
         THEN IF r <= 2 * corona_radius * grid_den
              THEN Thermal2e6
              ELSE ThermalDisk(r)
         ELSE Skip

\* The selection launching a streamline at r = corona_radius.
SelectVelocityAtCorona(r, v) ==
    IF CustomVel(modes) THEN v
    ELSE IF r >= corona_radius * grid_den
         THEN IF r < 2 * corona_radius * grid_den
              THEN Thermal2e6
              ELSE ThermalDisk(r)
         ELSE Skip

\* One pass of the if/elif/else of lines 245-254 for radius r (a numerator
\* over grid_den), v being the current value of the local v_z_0.
SelectVelocity(r, v) ==
    IF CustomVel(modes) THEN v
    ELSE IF r > corona_radius * grid_den
         THEN IF r < 2 * corona_radius * grid_den
              THEN Thermal2e6
              ELSE ThermalDisk(r)
         ELSE Skip

\* The loop of lines 244-255 from grid index i on; acc is self.lines so far.
RECURSIVE BuildLines(_, _, _)
BuildLines(i, v, acc) ==
    IF i > Len(lines_r_range) THEN acc
    ELSE LET r == lines_r_range[i]
             sel == SelectVelocity(r, v)
         IN  IF sel = Skip
             THEN BuildLines(i + 1, v, acc)
             ELSE BuildLines(i + 1, sel, Append(acc, NewLine(Len(acc) + 1, r, sel)))

\* An iteration count growing with the position, niter * np.arange(1, len + 1).
NiterArrayRamp(n, len) == [i \in 1..len |-> n * i]

\* niter * np.ones(len(self.lines)), as int
NiterArray(n, len) == [i \in 1..len |-> n]

\* ------------------------------------------------- compute_wind_mass_loss
EscapedLines(ls) == SelectSeq(ls, LAMBDA l : l.escaped)

\* self.lines_r_range[1] - self.lines_r_range[0]
DR == lines_r_range[2] - lines_r_range[1]

Area(l, dR) == (l.r_0 + dR) * (l.r_0 + dR) - l.r_0 * l.r_0

RECURSIVE SumFlux(_, _, _)
SumFlux(ls, dR, total) ==
    IF ls = <<>> THEN total
    ELSE SumFlux(Tail(ls), dR, total + Head(ls).rho_0 * Head(ls).v_T_0 * Area(Head(ls), dR))

ComputeWindMassLoss(ls) ==
    IF Len(EscapedLines(ls)) = 0 THEN 0
    ELSE SumFlux(EscapedLines(ls), DR, 0)

\* ------------------------------------------------------------- start_lines
\* Lines 240-256 and the branch on n_cpus; the pooled branch submits every
\* (line, niter) pair.
StartLines ==
    /\ pc = "constructed"
    /\ LET built == BuildLines(1, CallerV, <<>>)
           n == Len(built)
       IN  /\ lines' = built
           /\ launched' = built
           /\ physics' = [i \in 1..n |-> <<>>]
           /\ attempts' = [i \in 1..n |-> 0]
           /\ IF n_cpus = 1
              THEN /\ pc' = "seq"
                   /\ seq_i' = 1
                   /\ UNCHANGED poolVars
              ELSE /\ pc' = "pool"
                   /\ pending' = 1..n
                   /\ results' = [i \in 1..n |-> <<>>]
                   /\ UNCHANGED <<seq_i, running, reordered>>
    /\ niter' = DefaultNiter
    /\ UNCHANGED <<error, cfgVars, gridVars, mdot_w, failed, agg_calls, mass_ret>>

\* A loop that swallows the exception of iterate.
SeqAfterIterateSwallow(i, raised) == "seq"

\* Where the sequential loop goes after line.iterate on the line at index i.
SeqAfterIterate(i, raised) == IF raised THEN "raised" ELSE "seq"

\* One turn of the loop of lines 258-261.
SeqIterate ==
    /\ pc = "seq"
    /\ seq_i <= Len(lines)
    /\ \E o \in Outcomes :
          /\ Deterministic(lines[seq_i], o)
          /\ physics' = [physics EXCEPT ![seq_i] = <<o>>]
          /\ attempts' = [attempts EXCEPT ![seq_i] = @ + 1]
          /\ lines' = [lines EXCEPT ![seq_i] = Iterate(@, niter, "coordinator", o)]
          /\ pc' = SeqAfterIterate(seq_i, o.fails)
          /\ IF o.fails
             THEN /\ error' = "IterateError"
                  /\ failed' = failed \cup {seq_i}
                  /\ UNCHANGED seq_i
             ELSE /\ seq_i' = seq_i + 1
                  /\ UNCHANGED <<error, failed>>
    /\ UNCHANGED <<cfgVars, gridVars, mdot_w, niter, launched,
                   poolVars, agg_calls, mass_ret>>

\* Line 262: return self.lines.
SeqReturn ==
    /\ pc = "seq"
    /\ seq_i > Len(lines)
    /\ pc' = "returned"
    /\ UNCHANGED <<error, cfgVars, gridVars, lines, mdot_w, niter, physics, launched,
                   seq_i, poolVars, failed, attempts, agg_calls, mass_ret>>

\* The pool hands task i to one worker: the task leaves the queue.
TakeTask(pend, i) == pend \ {i}

WorkerTake(w) ==
    /\ pc = "pool"
    /\ running[w] = 0
    /\ \E i \in pending :
          /\ pending' = TakeTask(pending, i)
          /\ running' = [running EXCEPT ![w] = i]
          /\ attempts' = [attempts EXCEPT ![i] = @ + 1]
    /\ UNCHANGED <<pc, error, cfgVars, gridVars, lines, mdot_w, niter, physics,
                   launched, seq_i, results, reordered, failed, agg_calls, mass_ret>>

\* Results filed in the order they arrive: the first free position.
StoreResultOnArrival(res, i, val) ==
    LET free == CHOOSE j \in 1..Len(res) :
                    /\ res[j] = <<>>
                    /\ \A k \in 1..(j - 1) : res[k] # <<>>
    IN  [res EXCEPT ![free] = <<val>>]

\* The coordinator files the value of task i in the result list.
StoreResult(res, i, val) == [res EXCEPT ![i] = <<val>>]

\* Worker w ends evolve(line, niter) on its copy of the line: the evolved line
\* goes back to the coordinator, or the exception does.
WorkerFinish(w) ==
    /\ pc = "pool"
    /\ running[w] # 0
    /\ LET i == running[w]
       IN  \E o \in Outcomes :
             /\ Deterministic(lines[i], o)
             /\ physics' = [physics EXCEPT ![i] = <<o>>]
             /\ IF o.fails
                THEN /\ failed' = failed \cup {i}
                     /\ UNCHANGED results
                ELSE /\ results' = StoreResult(results, i,
                            Evolve(lines[i], NiterArray(niter, Len(lines))[i], "worker", o))
                     /\ UNCHANGED failed
             /\ reordered' = (reordered \/ \E j \in 1..(i - 1) : results[j] = <<>>)
    /\ running' = [running EXCEPT ![w] = 0]
    /\ UNCHANGED <<pc, error, cfgVars, gridVars, lines, mdot_w, niter,
                   launched, seq_i, pending, attempts, agg_calls, mass_ret>>

\* The list starmap returns.
StarmapResult(res) == [i \in 1..Len(res) |-> res[i][1]]

\* Lines 268-270: starmap returned; aggregate and return.
PoolReturn ==
    /\ pc = "pool"
    /\ \A i \in 1..Len(results) : results[i] # <<>>
    /\ lines' = StarmapResult(results)
    /\ mdot_w' = <<ComputeWindMassLoss(lines')>>
    /\ agg_calls' = agg_calls + 1
    /\ pc' = "returned"
    /\ UNCHANGED <<error, cfgVars, gridVars, niter, physics, launched, seq_i,
                   poolVars, failed, attempts, mass_ret>>

\* starmap re-raises a task's exception in the coordinator; the with block
\* ends the pool and the exception leaves start_lines.
PoolRaise ==
    /\ pc = "pool"
    /\ failed # {}
    /\ pc' = "raised"
    /\ error' = "IterateError"
    /\ UNCHANGED <<cfgVars, gridVars, lines, mdot_w, niter, physics, launched, seq_i,
                   poolVars, failed, attempts, agg_calls, mass_ret>>

\* A direct call of compute_wind_mass_loss once start_lines has returned.
CallComputeWindMassLoss ==
    /\ pc = "returned"
    /\ mass_ret = <<>>
    /\ mass_ret' = <<ComputeWindMassLoss(lines)>>
    /\ UNCHANGED <<pc, error, cfgVars, gridVars, lines, mdot_w, niter, physics,
                   launched, seq_i, poolVars, failed, attempts, agg_calls>>

Next ==
    \/ Construct
    \/ StartLines
    \/ SeqIterate
    \/ SeqReturn
    \/ \E w \in 1..n_cpus : WorkerTake(w)
    \/ \E w \in 1..n_cpus : WorkerFinish(w)
    \/ PoolReturn
    \/ PoolRaise
    \/ CallComputeWindMassLoss

Spec == Init /\ [][Next]_vars

\* ================================================================== claims
Built == pc \in {"seq", "pool", "returned", "raised"}

Constructed == pc \notin {"new", "ctor_raised"}

\* The grid radii that start_lines turns into streamlines, in grid order.
Launchable == SelectSeq(lines_r_range,
                  LAMBDA r : CustomVel(modes) \/ r > corona_radius * grid_den)

RECURSIVE FluxOver(_)
\* Sum over the escaped streamlines with index in S of rho_0 * v_T_0 * area.
FluxOver(S) ==
    IF S = {} THEN 0
    ELSE LET i == CHOOSE j \in S : TRUE
             l == lines[i]
             a == (l.r_0 + DR) * (l.r_0 + DR) - l.r_0 * l.r_0
         IN  (IF l.escaped THEN l.rho_0 * l.v_T_0 * a ELSE 0) + FluxOver(S \ {i})

\* C1: a start_lines call that returns has run compute_wind_mass_loss exactly
\* once over the final streamlines and stored the result in mdot_w, for
\* n_cpus = 1 as for n_cpus > 1.
C1_AggregatedOnReturn ==
    pc = "returned" =>
        /\ agg_calls = 1
        /\ mdot_w = <<ComputeWindMassLoss(lines)>>

\* C2: the sequence start_lines returns has one element per launched
\* streamline, element i carrying the launch radius of the i-th submitted
\* streamline and the (escaped, rho_0, v_T_0) the integrator gives that
\* streamline, whatever n_cpus is and in whatever order the workers finish.
C2_SameResultsInSubmissionOrder ==
    pc = "returned" =>
        /\ Len(lines) = Len(launched)
        /\ \A i \in 1..Len(lines) :
              /\ lines[i].r_0 = launched[i].r_0
              /\ physics[launched[i].id] # <<>>
              /\ lines[i].escaped = physics[launched[i].id][1].escaped
              /\ lines[i].v_T_0 = physics[launched[i].id][1].v_T_0
              /\ lines[i].rho_0 = launched[i].rho_0

\* A pooled call returned although a later task finished before an earlier one.
C2_Witness ==
    /\ pc = "returned"
    /\ n_cpus > 1
    /\ reordered
    /\ \E i, j \in 1..Len(lines) :
          lines[i].r_0 # lines[j].r_0 /\ lines[i].escaped # lines[j].escaped

\* C3: iterate is invoked at most once on a streamline, never by two workers
\* at a time; when start_lines returns every streamline was iterated exactly
\* once, with the niter of the call, by the coordinator (n_cpus = 1) or by a
\* pool worker (n_cpus > 1).
C3_IteratedExactlyOnce ==
    /\ \A w1, w2 \in 1..n_cpus :
          (w1 # w2 /\ running[w1] # 0) => running[w1] # running[w2]
    /\ \A i \in 1..Len(attempts) : attempts[i] <= 1
    /\ pc = "returned" =>
          /\ Len(lines) = Len(launched)
          /\ \A i \in 1..Len(launched) : attempts[i] = 1
          /\ \A i \in 1..Len(lines) :
                /\ Len(lines[i].iters) = 1
                /\ lines[i].iters[1].niter = niter
                /\ lines[i].iters[1].by =
                       IF n_cpus = 1 THEN "coordinator" ELSE "worker"

\* A pooled call over at least two streamlines returned.
C3_Witness ==
    /\ pc = "returned"
    /\ n_cpus > 1
    /\ Len(lines) >= 2

\* C4 as stated: for r_in < r_out and nr > 1 the grid has nr strictly
\* increasing radii spaced by dr, the first r_in + 0.5*dr, the last
\* r_out - 0.5*dr, all within [r_in, r_out].
C4_Original ==
    (Constructed /\ r_in < r_out) =>
        /\ Len(lines_r_range) = arg_nr
        /\ \A i \in 1..(arg_nr - 1) :
              lines_r_range[i + 1] - lines_r_range[i] = 2 * (r_out - r_in)
        /\ lines_r_range[1] = grid_den * r_in + (r_out - r_in)
        /\ lines_r_range[arg_nr] = grid_den * r_out - (r_out - r_in)
        /\ \A i \in 1..arg_nr :
              /\ lines_r_range[i] >= grid_den * r_in
              /\ lines_r_range[i] <= grid_den * r_out

\* C4 amended: for r_in < r_out and nr > 1 the grid has nr strictly increasing
\* radii spaced by dr, the first r_in + 0.5*dr, the last r_out + 0.5*dr: every
\* radius lies in [r_in, r_out + 0.5*dr] and the last lies beyond r_out.
C4_GridShape ==
    (Constructed /\ r_in < r_out) =>
        /\ arg_nr > 1
        /\ grid_den = 2 * (arg_nr - 1)
        /\ Len(lines_r_range) = arg_nr
        /\ \A i \in 1..(arg_nr - 1) :
              /\ lines_r_range[i + 1] > lines_r_range[i]
              /\ lines_r_range[i + 1] - lines_r_range[i] = 2 * (r_out - r_in)
        /\ lines_r_range[1] = grid_den * r_in + (r_out - r_in)
        /\ lines_r_range[arg_nr] = grid_den * r_out + (r_out - r_in)
        /\ lines_r_range[arg_nr] > grid_den * r_out
        /\ \A i \in 1..arg_nr :
              /\ lines_r_range[i] >= grid_den * r_in
              /\ lines_r_range[i] <= grid_den * r_out + (r_out - r_in)

\* A well-formed grid of at least three radii was built.
C4_Witness ==
    /\ pc = "constructed"
    /\ r_in < r_out
    /\ Len(lines_r_range) >= 3

\* C5: start_lines gives each grid radius r its initial velocity by the first
\* matching rule: the caller's v_z_0 under 'custom_vel' or 'old'; else no
\* streamline when r <= corona_radius; else v_thermal(2e6)*c when
\* corona_radius < r < 2*corona_radius; else (r >= 2*corona_radius) the
\* thermal velocity at the disc temperature of r.
C5_VelocityRules ==
    Built =>
        IF CustomVel(modes)
        THEN /\ Len(launched) = Len(lines_r_range)
             /\ \A k \in 1..Len(launched) :
                   /\ launched[k].r_0 = lines_r_range[k]
                   /\ launched[k].v_z_0 = CallerV
        ELSE \A k \in 1..Len(lines_r_range) :
                LET r == lines_r_range[k]
                    at == {i \in 1..Len(launched) : launched[i].r_0 = r}
                IN  /\ r <= corona_radius * grid_den => at = {}
                    /\ (r > corona_radius * grid_den /\ r < 2 * corona_radius * grid_den) =>
                          /\ at # {}
                          /\ \A i \in at : launched[i].v_z_0 = Thermal2e6
                    /\ r >= 2 * corona_radius * grid_den =>
                          /\ at # {}
                          /\ \A i \in at : launched[i].v_z_0 = ThermalDisk(r)

\* Without custom velocity, one radius was skipped and one lies exactly at
\* 2*corona_radius.
C5_Witness ==
    /\ Built
    /\ ~CustomVel(modes)
    /\ \E k \in 1..Len(lines_r_range) : lines_r_range[k] <= corona_radius * grid_den
    /\ \E i \in 1..Len(launched) :
          /\ launched[i].r_0 = 2 * corona_radius * grid_den
          /\ launched[i].v_z_0 = ThermalDisk(launched[i].r_0)

\* C6 as stated: after start_lines, under any modes, no streamline has a
\* launch radius below corona_radius, the sequence is as long as the grid less
\* the radii skipped, and the streamlines keep the order of the grid.
C6_Original ==
    pc = "returned" =>
        /\ \A i \in 1..Len(lines) : lines[i].r_0 >= corona_radius * grid_den
        /\ Len(lines) = Len(lines_r_range)
              - Cardinality({k \in 1..Len(lines_r_range) :
                                ~CustomVel(modes)
                                /\ lines_r_range[k] <= corona_radius * grid_den})
        /\ \A i \in 1..Len(lines) : lines[i].r_0 = Launchable[i]

\* C6 amended: after start_lines with neither 'custom_vel' nor 'old' enabled,
\* no streamline has a launch radius <= corona_radius; with one of them
\* enabled no radius is skipped, also inside the corona.  In every mode the
\* sequence is as long as the grid less the radii skipped, in grid order.
C6_SkipInsideCorona ==
    pc = "returned" =>
        /\ ~CustomVel(modes) =>
              /\ \A i \in 1..Len(lines) : lines[i].r_0 > corona_radius * grid_den
              /\ Len(lines) = Len(lines_r_range)
                    - Cardinality({k \in 1..Len(lines_r_range) :
                                      lines_r_range[k] <= corona_radius * grid_den})
        /\ CustomVel(modes) => Len(lines) = Len(lines_r_range)
        /\ Len(lines) = Len(Launchable)
        /\ \A i \in 1..Len(lines) : lines[i].r_0 = Launchable[i]

\* Without custom velocity, a radius exactly at corona_radius was skipped and
\* another radius was launched.
C6_Witness ==
    /\ pc = "returned"
    /\ ~CustomVel(modes)
    /\ \E k \in 1..Len(lines_r_range) : lines_r_range[k] = corona_radius * grid_den
    /\ Len(lines) > 0
    /\ Len(lines) < Len(lines_r_range)

\* The values compute_wind_mass_loss has returned so far.
MassLossValues ==
    {mdot_w[i] : i \in 1..Len(mdot_w)} \cup {mass_ret[i] : i \in 1..Len(mass_ret)}

\* C7: compute_wind_mass_loss returns 0 when no streamline escaped (also for
\* no streamline at all), a strictly positive value when a streamline escaped
\* with positive rho_0 and v_T_0, and in all cases the sum over the escaped
\* streamlines of rho_0 * v_T_0 * ((r_0 + dR)^2 - r_0^2) in the model's units.
C7_MassLoss ==
    \A v \in MassLossValues :
        /\ (\A i \in 1..Len(lines) : ~lines[i].escaped) => v = 0
        /\ (\E i \in 1..Len(lines) :
               lines[i].escaped /\ lines[i].rho_0 > 0 /\ lines[i].v_T_0 > 0) => v > 0
        /\ v = FluxOver(1..Len(lines))

\* C8: when iterate fails for a streamline, start_lines raises: it does not
\* return, stores no mass-loss rate and does not call iterate again on the
\* streamline that failed.
C8_FailureIsFatal ==
    /\ failed # {} =>
          /\ pc \in {"pool", "raised"}
          /\ mdot_w = <<>>
          /\ agg_calls = 0
          /\ \A i \in failed : attempts[i] = 1
    /\ pc = "raised" => (failed # {} /\ error = "IterateError")
    /\ pc = "returned" => \A i \in 1..Len(physics) : physics[i] # <<>> /\ ~physics[i][1].fails

\* A pooled call raised after another task had already delivered its result.
C8_Witness ==
    /\ pc = "raised"
    /\ n_cpus > 1
    /\ \E i \in 1..Len(results) : results[i] # <<>>

\* C9: a configuration with effective r_in >= r_out, or with nr < 1, makes the
\* constructor raise; no model exists whose grid is empty or not increasing.
C9_MalformedRejected ==
    /\ (pc # "new" /\ (EffRIn >= EffROut \/ arg_nr < 1)) => pc = "ctor_raised"
    /\ Constructed =>
          /\ Len(lines_r_range) >= 1
          /\ \A i \in 1..(Len(lines_r_range) - 1) :
                lines_r_range[i + 1] > lines_r_range[i]

\* C10: for nr = 1 and r_in < r_out the constructor completes with the grid
\* holding the single radius r_in.
C10_SingleRadius ==
    (pc # "new" /\ arg_nr = 1 /\ EffRIn < EffROut) =>
        /\ pc # "ctor_raised"
        /\ Len(lines_r_range) = 1
        /\ lines_r_range[1] = EffRIn
====
